---- MODULE Spec2Model ----
(***************************************************************************)
(* Model of the hybrid retrieval fusion of src/query.py: the constructor   *)
(* of CustomRetriever and its _retrieve method, with the two upstream      *)
(* retrievers (vector, keyword) as an environment that answers a query     *)
(* from a fixed index or raises.                                           *)
(***************************************************************************)
EXTENDS Naturals, Sequences, FiniteSets

\* ------------------------------------------------------------------ bounds
\* Longest result sequence an upstream retriever returns.
MaxLen == 2

\* Node ids of the corpus and the scores an upstream retriever may attach.
Ids == {"a", "b"}
Scores == {1, 2}

\* Queries, told apart by the node ids they match.
Queries == {"q_any", "q_a", "q_nothing"}
NoQuery == "-"

\* Mode strings a caller may pass to the constructor.
ModeInputs == {"AND", "OR", "XOR", "and"}

\* ------------------------------------------------------------ data model
\* NodeWithScore, reduced to what _retrieve reads: n.node.node_id and the score.
NodeWithScore == [node_id : Ids, score : Scores]

BoundedSeq(S, n) == UNION {[1..k -> S] : k \in 0..n}

\* The node ids a query matches; an upstream retriever answers a query with its
\* index's ranking restricted to them.
Matches(q) ==
    CASE q = "q_any" -> Ids
      [] q = "q_a" -> {"a"}
      [] OTHER -> {}

RECURSIVE Restrict(_, _)
Restrict(seq, ids) ==
    IF seq = <<>> THEN <<>>
    ELSE IF Head(seq).node_id \in ids
         THEN <<Head(seq)>> \o Restrict(Tail(seq), ids)
         ELSE Restrict(Tail(seq), ids)

NoException == [type |-> "none", origin |-> "none"]
UpstreamException(who) == [type |-> "UpstreamFailure", origin |-> who]

NoResult == [status |-> "none", nodes |-> <<>>, exc |-> NoException]
Returned(nodes) == [status |-> "ok", nodes |-> nodes, exc |-> NoException]
Raised(e) == [status |-> "raised", nodes |-> <<>>, exc |-> e]

NoRetriever == [vector_retriever |-> "none", keyword_retriever |-> "none", mode |-> "none"]
NoCtor == [mode |-> "none", outcome |-> "none"]

Unseen == [known |-> FALSE, items |-> {}]

VARIABLES
    vector_index,     \* ranking held by the vector index
    keyword_index,    \* ranking held by the keyword index
    retriever,        \* the CustomRetriever object (its three fields), or NoRetriever
    ctor,             \* the last constructor call: mode passed and outcome
    pc,               \* position of the caller inside retrieve
    query_bundle,     \* argument of the running _retrieve
    calls,            \* upstream invocations of the running _retrieve, in order
    vector_nodes,     \* local of _retrieve
    keyword_nodes,    \* local of _retrieve
    result,           \* what _retrieve returned or raised
    seen              \* per query, the items of the last successful retrieve

vars == <<vector_index, keyword_index, retriever, ctor, pc, query_bundle, calls,
          vector_nodes, keyword_nodes, result, seen>>

\* --------------------------------------------------------- pure helpers
\* {n.node.node_id for n in nodes}
IdSet(nodes) == {nodes[i].node_id : i \in DOMAIN nodes}

\* The elements of a sequence, as a set.
Range(seq) == {seq[i] : i \in DOMAIN seq}

\* Index of the occurrence of id that a dict comprehension keeps: the last one.
KeptIndexFirst(nodes, id) ==
    CHOOSE i \in DOMAIN nodes :
        /\ nodes[i].node_id = id
        /\ \A j \in DOMAIN nodes : nodes[j].node_id = id => i <= j

KeptIndex(nodes, id) ==
    CHOOSE i \in DOMAIN nodes :
        /\ nodes[i].node_id = id
        /\ \A j \in DOMAIN nodes : nodes[j].node_id = id => j <= i

\* {n.node.node_id: n for n in nodes}
DictOf(nodes) == [id \in IdSet(nodes) |-> nodes[KeptIndex(nodes, id)]]

\* d.update(e) that keeps d's entry on a key collision.
DictUpdateKeepOld(d, e) ==
    [id \in DOMAIN d \cup DOMAIN e |-> IF id \in DOMAIN d THEN d[id] ELSE e[id]]

\* d.update(e)
DictUpdate(d, e) ==
    [id \in DOMAIN d \cup DOMAIN e |-> IF id \in DOMAIN e THEN e[id] ELSE d[id]]

\* combined_dict of _retrieve
CombinedDict(vnodes, knodes) == DictUpdate(DictOf(vnodes), DictOf(knodes))

RetrieveIdsAlwaysUnion(mode, vector_ids, keyword_ids) == vector_ids \cup keyword_ids

RetrieveIdsAlwaysIntersection(mode, vector_ids, keyword_ids) == vector_ids \cap keyword_ids

\* retrieve_ids of _retrieve
RetrieveIds(mode, vector_ids, keyword_ids) ==
    IF mode = "AND" THEN vector_ids \cap keyword_ids
    ELSE vector_ids \cup keyword_ids

\* The orders in which iterating a set of ids may deliver them.
IterationOrders(S) ==
    {f \in [1..Cardinality(S) -> S] : \A i, j \in DOMAIN f : f[i] = f[j] => i = j}

\* What an upstream retriever returns for a query when it does not raise.
UpstreamHits(which, q) ==
    IF which = "vector" THEN Restrict(vector_index, Matches(q))
    ELSE Restrict(keyword_index, Matches(q))

\* ------------------------------------------------------------------ Init
Init ==
    /\ vector_index \in BoundedSeq(NodeWithScore, MaxLen)
    /\ keyword_index \in BoundedSeq(NodeWithScore, MaxLen)
    /\ retriever = NoRetriever
    /\ ctor = NoCtor
    /\ pc = "idle"
    /\ query_bundle = NoQuery
    /\ calls = <<>>
    /\ vector_nodes = <<>>
    /\ keyword_nodes = <<>>
    /\ result = NoResult
    /\ seen = [q \in Queries |-> Unseen]

\* ----------------------------------------------------------- constructor
ConstructUnchecked(mode) ==
    /\ retriever = NoRetriever
    /\ pc = "idle"
    /\ retriever' = [vector_retriever |-> "vector", keyword_retriever |-> "keyword",
                     mode |-> mode]
    /\ ctor' = [mode |-> mode, outcome |-> "constructed"]
    /\ UNCHANGED <<vector_index, keyword_index, pc, query_bundle, calls,
                   vector_nodes, keyword_nodes, result, seen>>

\* CustomRetriever(vector_retriever, keyword_retriever, mode)
Construct(mode) ==
    /\ retriever = NoRetriever
    /\ pc = "idle"
    /\ IF mode \notin {"AND", "OR"}
       THEN /\ ctor' = [mode |-> mode, outcome |-> "ValueError"]
            /\ UNCHANGED retriever
       ELSE /\ retriever' = [vector_retriever |-> "vector",
                             keyword_retriever |-> "keyword", mode |-> mode]
            /\ ctor' = [mode |-> mode, outcome |-> "constructed"]
    /\ UNCHANGED <<vector_index, keyword_index, pc, query_bundle, calls,
                   vector_nodes, keyword_nodes, result, seen>>

\* -------------------------------------------------------------- retrieve
\* The caller enters _retrieve(query_bundle).
Retrieve(q) ==
    /\ retriever # NoRetriever
    /\ pc = "idle"
    /\ pc' = "call_vector"
    /\ query_bundle' = q
    /\ calls' = <<>>
    /\ vector_nodes' = <<>>
    /\ keyword_nodes' = <<>>
    /\ result' = NoResult
    /\ UNCHANGED <<vector_index, keyword_index, retriever, ctor, seen>>

\* vector_nodes = self._vector_retriever.retrieve(query_bundle), returning
VectorReturns ==
    /\ pc = "call_vector"
    /\ vector_nodes' = UpstreamHits(retriever.vector_retriever, query_bundle)
    /\ calls' = Append(calls, [to |-> retriever.vector_retriever,
                               query |-> query_bundle, outcome |-> "returned"])
    /\ pc' = "call_keyword"
    /\ UNCHANGED <<vector_index, keyword_index, retriever, ctor, query_bundle,
                   keyword_nodes, result, seen>>

VectorRaisesThenContinues ==
    /\ pc = "call_vector"
    /\ calls' = Append(calls, [to |-> retriever.vector_retriever,
                               query |-> query_bundle, outcome |-> "raised"])
    /\ vector_nodes' = <<>>
    /\ pc' = "call_keyword"
    /\ UNCHANGED <<vector_index, keyword_index, retriever, ctor, query_bundle,
                   keyword_nodes, result, seen>>

\* self._vector_retriever.retrieve(query_bundle) raising: the exception leaves
\* _retrieve, which has no handler.
VectorRaises ==
    /\ pc = "call_vector"
    /\ calls' = Append(calls, [to |-> retriever.vector_retriever,
                               query |-> query_bundle, outcome |-> "raised"])
    /\ result' = Raised(UpstreamException(retriever.vector_retriever))
    /\ pc' = "done"
    /\ UNCHANGED <<vector_index, keyword_index, retriever, ctor, query_bundle,
                   vector_nodes, keyword_nodes, seen>>

\* keyword_nodes = self._keyword_retriever.retrieve(query_bundle), returning
KeywordReturns ==
    /\ pc = "call_keyword"
    /\ keyword_nodes' = UpstreamHits(retriever.keyword_retriever, query_bundle)
    /\ calls' = Append(calls, [to |-> retriever.keyword_retriever,
                               query |-> query_bundle, outcome |-> "returned"])
    /\ pc' = "merge"
    /\ UNCHANGED <<vector_index, keyword_index, retriever, ctor, query_bundle,
                   vector_nodes, result, seen>>

KeywordRaisesSwallowed ==
    /\ pc = "call_keyword"
    /\ calls' = Append(calls, [to |-> retriever.keyword_retriever,
                               query |-> query_bundle, outcome |-> "raised"])
    /\ keyword_nodes' = <<>>
    /\ pc' = "merge"
    /\ UNCHANGED <<vector_index, keyword_index, retriever, ctor, query_bundle,
                   vector_nodes, result, seen>>

\* self._keyword_retriever.retrieve(query_bundle) raising: the exception leaves
\* _retrieve and the local vector_nodes goes out of scope.
KeywordRaises ==
    /\ pc = "call_keyword"
    /\ calls' = Append(calls, [to |-> retriever.keyword_retriever,
                               query |-> query_bundle, outcome |-> "raised"])
    /\ result' = Raised(UpstreamException(retriever.keyword_retriever))
    /\ vector_nodes' = <<>>
    /\ pc' = "done"
    /\ UNCHANGED <<vector_index, keyword_index, retriever, ctor, query_bundle,
                   keyword_nodes, seen>>

\* The merge written over the concatenated lists instead of the id set.
MergeOverLists ==
    /\ pc = "merge"
    /\ LET retrieve_ids == RetrieveIds(retriever.mode, IdSet(vector_nodes),
                                       IdSet(keyword_nodes))
           combined_dict == CombinedDict(vector_nodes, keyword_nodes)
           all == vector_nodes \o keyword_nodes
           hit(n) == n.node_id \in retrieve_ids
           kept == SelectSeq(all, hit)
       IN result' = Returned([i \in DOMAIN kept |-> combined_dict[kept[i].node_id]])
    /\ pc' = "done"
    /\ UNCHANGED <<vector_index, keyword_index, retriever, ctor, query_bundle, calls,
                   vector_nodes, keyword_nodes, seen>>

\* The merge with keyword_nodes appended to vector_nodes in place.
MergeInPlace ==
    /\ pc = "merge"
    /\ LET retrieve_ids == RetrieveIds(retriever.mode, IdSet(vector_nodes),
                                       IdSet(keyword_nodes))
           combined_dict == CombinedDict(vector_nodes, keyword_nodes)
       IN \E order \in IterationOrders(retrieve_ids) :
              result' = Returned([i \in DOMAIN order |-> combined_dict[order[i]]])
    /\ vector_nodes' = vector_nodes \o keyword_nodes
    /\ pc' = "done"
    /\ UNCHANGED <<vector_index, keyword_index, retriever, ctor, query_bundle, calls,
                   keyword_nodes, seen>>

\* The merge with the representative of an id taken from an unordered pool of
\* the upstream items.
MergeUnordered ==
    /\ pc = "merge"
    /\ LET retrieve_ids == RetrieveIds(retriever.mode, IdSet(vector_nodes),
                                       IdSet(keyword_nodes))
           pool == Range(vector_nodes) \cup Range(keyword_nodes)
       IN \E order \in IterationOrders(retrieve_ids) :
          \E pick \in [retrieve_ids -> pool] :
              /\ \A id \in retrieve_ids : pick[id].node_id = id
              /\ result' = Returned([i \in DOMAIN order |-> pick[order[i]]])
    /\ pc' = "done"
    /\ UNCHANGED <<vector_index, keyword_index, retriever, ctor, query_bundle, calls,
                   vector_nodes, keyword_nodes, seen>>

\* Lines 36-48 of _retrieve: the id sets, combined_dict, retrieve_ids and the
\* list built by iterating retrieve_ids, whose order the set decides.
Merge ==
    /\ pc = "merge"
    /\ LET vector_ids == IdSet(vector_nodes)
           keyword_ids == IdSet(keyword_nodes)
           combined_dict == CombinedDict(vector_nodes, keyword_nodes)
           retrieve_ids == RetrieveIds(retriever.mode, vector_ids, keyword_ids)
       IN \E order \in IterationOrders(retrieve_ids) :
              result' = Returned([i \in DOMAIN order |-> combined_dict[order[i]]])
    /\ pc' = "done"
    /\ UNCHANGED <<vector_index, keyword_index, retriever, ctor, query_bundle, calls,
                   vector_nodes, keyword_nodes, seen>>

\* The caller takes the outcome of retrieve; a returned collection is noted as
\* the last one seen for its query.
Return ==
    /\ pc = "done"
    /\ seen' = IF result.status = "ok"
               THEN [seen EXCEPT ![query_bundle] =
                        [known |-> TRUE, items |-> Range(result.nodes)]]
               ELSE seen
    /\ pc' = "idle"
    /\ query_bundle' = NoQuery
    /\ calls' = <<>>
    /\ vector_nodes' = <<>>
    /\ keyword_nodes' = <<>>
    /\ result' = NoResult
    /\ UNCHANGED <<vector_index, keyword_index, retriever, ctor>>

Next ==
    \/ \E mode \in ModeInputs : Construct(mode)
    \/ \E q \in Queries : Retrieve(q)
    \/ VectorReturns
    \/ VectorRaises
    \/ KeywordReturns
    \/ KeywordRaises
    \/ Merge
    \/ Return

Spec == Init /\ [][Next]_vars

\* ------------------------------------------------------- properties
\* What the two upstream retrievers answer to the running query.
V == UpstreamHits("vector", query_bundle)
K == UpstreamHits("keyword", query_bundle)

Done == pc = "done"
DoneOk == pc = "done" /\ result.status = "ok"
ResultIds == IdSet(result.nodes)
AllReturned == Len(calls) = 2 /\ \A i \in DOMAIN calls : calls[i].outcome = "returned"
SomeRaised == \E i \in DOMAIN calls : calls[i].outcome = "raised"

ItemsOf(seq, id) == {n \in Range(seq) : n.node_id = id}
ScoresOf(seq, id) == {n.score : n \in ItemsOf(seq, id)}
LastOccurrence(seq, id) ==
    seq[CHOOSE i \in DOMAIN seq :
            /\ seq[i].node_id = id
            /\ \A j \in DOMAIN seq : j > i => seq[j].node_id # id]

\* C1: in OR mode, once both upstream calls have returned, retrieve returns
\* without error a collection whose id set is exactly ids(V) \cup ids(K); it is
\* empty when V and K are empty.
C1_UnionCorrectness ==
    (pc = "done" /\ retriever.mode = "OR" /\ AllReturned) =>
        /\ result.status = "ok"
        /\ ResultIds = IdSet(V) \cup IdSet(K)
        /\ (V = <<>> /\ K = <<>>) => result.nodes = <<>>

C1_Witness ==
    /\ DoneOk
    /\ retriever.mode = "OR"
    /\ IdSet(V) \ IdSet(K) # {}
    /\ IdSet(K) \ IdSet(V) # {}
    /\ ResultIds = Ids

\* C2: in AND mode, once both upstream calls have returned, retrieve returns
\* without error a collection whose id set is exactly ids(V) \cap ids(K); it is
\* empty when V or K is empty or they share no id.
C2_IntersectionCorrectness ==
    (pc = "done" /\ retriever.mode = "AND" /\ AllReturned) =>
        /\ result.status = "ok"
        /\ ResultIds = IdSet(V) \cap IdSet(K)
        /\ (V = <<>> \/ K = <<>> \/ IdSet(V) \cap IdSet(K) = {}) => result.nodes = <<>>

C2_Witness ==
    /\ DoneOk
    /\ retriever.mode = "AND"
    /\ IdSet(V) \cap IdSet(K) # {}
    /\ IdSet(V) \ IdSet(K) # {}
    /\ ResultIds = IdSet(V) \cap IdSet(K)

\* C3: in both modes, an id that occurs in V and in K is returned with a score
\* the keyword retriever gave it, so never with the vector retriever's score
\* when the two retrievers scored it differently.
C3_KeywordScoreWins ==
    DoneOk =>
        \A id \in IdSet(V) \cap IdSet(K) :
            /\ \E i \in DOMAIN result.nodes : result.nodes[i].node_id = id
            /\ \A i \in DOMAIN result.nodes :
                   result.nodes[i].node_id = id =>
                       /\ result.nodes[i].score \in ScoresOf(K, id)
                       /\ (ScoresOf(V, id) \cap ScoresOf(K, id) = {} =>
                               result.nodes[i].score \notin ScoresOf(V, id))

C3_Witness ==
    /\ DoneOk
    /\ \E id \in IdSet(V) \cap IdSet(K) :
           /\ ScoresOf(V, id) \cap ScoresOf(K, id) = {}
           /\ id \in ResultIds

\* C4: the returned collection never holds two items with the same id, and every
\* id of the computed id set is held exactly once, also when an id occurs in
\* both upstream sequences or twice in one of them.
C4_NoDuplicateIds ==
    DoneOk =>
        /\ \A i, j \in DOMAIN result.nodes :
               result.nodes[i].node_id = result.nodes[j].node_id => i = j
        /\ Len(result.nodes) = Cardinality(ResultIds)

C4_Witness ==
    /\ DoneOk
    /\ Len(V) = 2
    /\ V[1].node_id = V[2].node_id
    /\ V[1].node_id \in IdSet(K)
    /\ V[1].node_id \in ResultIds

\* C5: a constructor call with a mode outside {AND, OR} raises and yields no
\* retriever; one with AND or OR yields a retriever holding that mode, so that
\* no retrieve runs under any other mode.
C5_ModeValidated ==
    /\ ctor # NoCtor =>
           (ctor.outcome = "ValueError" <=> ctor.mode \notin {"AND", "OR"})
    /\ ctor.outcome = "ValueError" => retriever = NoRetriever
    /\ ctor.outcome = "constructed" => retriever.mode = ctor.mode
    /\ retriever # NoRetriever => retriever.mode \in {"AND", "OR"}
    /\ pc # "idle" => retriever.mode \in {"AND", "OR"}

C5_Witness ==
    /\ ctor = [mode |-> "XOR", outcome |-> "ValueError"]
    /\ retriever = NoRetriever

\* C6 as stated: a failed upstream call makes retrieve fail with a retrieval
\* error that wraps the upstream cause.
C6_WrappedRetrievalError ==
    (pc = "done" /\ SomeRaised) =>
        /\ result.status = "raised"
        /\ result.exc.type = "RetrievalError"

\* C6 (amended): a failed upstream call makes retrieve fail as a whole with the
\* upstream retriever's own exception, unwrapped, and no collection is returned;
\* a collection is returned only when both upstream calls returned.
C6_FailurePropagatesUnwrapped ==
    /\ \A i \in DOMAIN calls :
           calls[i].outcome = "raised" =>
               /\ pc = "done"
               /\ result = Raised(UpstreamException(calls[i].to))
               /\ result.nodes = <<>>
    /\ result.status = "ok" => AllReturned
    /\ result.status = "raised" => SomeRaised

C6_Witness ==
    /\ pc = "done"
    /\ Len(calls) = 2
    /\ calls[2].outcome = "raised"
    /\ V # <<>>
    /\ result.status = "raised"

\* C7: a retrieve that returns for a query for which an earlier retrieve on the
\* same retriever returned, the upstream answers being the same, returns the
\* same set of items (ids and scores).
C7_SameQuerySameItems ==
    (DoneOk /\ seen[query_bundle].known) =>
        Range(result.nodes) = seen[query_bundle].items

C7_Witness ==
    /\ DoneOk
    /\ seen[query_bundle].known
    /\ result.nodes # <<>>
    /\ \E q \in Queries \ {query_bundle} :
           seen[q].known /\ seen[q].items # seen[query_bundle].items

\* State part of C8: the fields are the constructor's, every upstream invocation
\* carries the running query, and the locals still equal the upstream answers.
C8_State ==
    /\ retriever # NoRetriever =>
           retriever = [vector_retriever |-> "vector",
                        keyword_retriever |-> "keyword", mode |-> ctor.mode]
    /\ \A i \in DOMAIN calls : calls[i].query = query_bundle
    /\ (pc \in {"call_keyword", "merge"} \/ DoneOk) => vector_nodes = V
    /\ (pc = "merge" \/ DoneOk) => keyword_nodes = K

\* Step part of C8: no step writes an index or a field of the retriever, and the
\* query of a running retrieve does not change.
C8_Step ==
    /\ vector_index' = vector_index
    /\ keyword_index' = keyword_index
    /\ retriever # NoRetriever => retriever' = retriever
    /\ (pc # "idle" /\ pc' # "idle") => query_bundle' = query_bundle

\* C8: every upstream invocation of a retrieve carries the query retrieve
\* received; the retriever's three fields stay as constructed, the indices are
\* not written, and the sequences the upstream retrievers returned are not
\* modified by the merge.
C8_ReadOnlyRetrieve == [](C8_State) /\ [][C8_Step]_vars

C8_Witness ==
    /\ DoneOk
    /\ V # <<>>
    /\ K # <<>>
    /\ \E q \in Queries : seen[q].known

\* C9: within one retrieve the vector retriever is called first and once, the
\* keyword retriever once and only after the vector call returned, and the merge
\* only after both returned; after a vector failure the keyword retriever is
\* not called, and after a keyword failure the vector results are dropped.
C9_SequentialUpstreamCalls ==
    /\ Len(calls) <= 2
    /\ Len(calls) >= 1 => calls[1].to = "vector"
    /\ Len(calls) = 2 => calls[2].to = "keyword" /\ calls[1].outcome = "returned"
    /\ pc = "call_vector" => calls = <<>>
    /\ pc = "call_keyword" => Len(calls) = 1
    /\ (pc = "merge" \/ DoneOk) => AllReturned
    /\ (pc = "done" /\ result.status = "raised") =>
           /\ calls[Len(calls)].outcome = "raised"
           /\ result.nodes = <<>>
           /\ vector_nodes = <<>>

C9_Witness ==
    /\ pc = "done"
    /\ Len(calls) = 1
    /\ calls[1] = [to |-> "vector", query |-> query_bundle, outcome |-> "raised"]
    /\ K # <<>>

\* C10: every returned item is an upstream item, unchanged: for an id that
\* occurs in K the last item of K with that id, and for an id that occurs only
\* in V the last item of V with that id.
C10_ItemsAreUpstreamItems ==
    DoneOk =>
        \A i \in DOMAIN result.nodes :
            LET n == result.nodes[i]
            IN IF n.node_id \in IdSet(K)
               THEN n = LastOccurrence(K, n.node_id)
               ELSE /\ n.node_id \in IdSet(V)
                    /\ n = LastOccurrence(V, n.node_id)

C10_Witness ==
    /\ DoneOk
    /\ Len(V) = 2
    /\ V[1].node_id = V[2].node_id
    /\ V[1].score # V[2].score
    /\ V[1].node_id \notin IdSet(K)
    /\ V[2] \in Range(result.nodes)

====
